---- MODULE Spec2Model ----
(***************************************************************************)
(* The element / X-ray line registry of EDSSpectrum and its line selector  *)
(* (hyperspy/_signals/eds.py).                                             *)
(*                                                                         *)
(* Strings are sequences of tokens: an element symbol and a subshell name  *)
(* are one token each, "_" is the separator token, so that "Fe_Ka" is      *)
(* <<"Fe", "_", "Ka">> and str.split("_") is computed, not assumed.        *)
(* Energies are integers in units of 0.1 keV.                              *)
(***************************************************************************)
EXTENDS Integers, Sequences, FiniteSets, TLC

VARIABLES
    has_beam,       \* metadata.SEM.beam_energy / metadata.TEM.beam_energy is defined
    beam_energy,    \* its value
    high_value,     \* axes_manager.signal_axes[0].high_value
    line_table,     \* per element, the order in which the Xray_lines dict lists its keys
    has_elements,   \* "Sample.elements" in metadata
    elements,       \* metadata.Sample.elements
    has_lines,      \* "Sample.Xray_lines" in metadata
    xray_lines,     \* metadata.Sample.Xray_lines
    last,           \* the call that has just run: arguments, registry before it, outcome
    selected,       \* the last _get_lines_from_elements call: arguments and outcome
    signal_type,    \* metadata.signal_type
    parsed,         \* the last _get_element_and_line call: argument and outcome
    results,        \* metadata.Sample[result], the stored list of one result kind
    answer,         \* the last get_result / _set_result / normalize_result call
    intensity,      \* the last get_lines_intensity call: arguments and outcome
    width,          \* the last FWHM call: arguments and outcome
    acquisition,    \* metadata.SEM / metadata.TEM and axes_manager.shape of the spectrum
    summed          \* the last sum call: argument, acquisition before it, outcome

vars == <<has_beam, beam_energy, high_value, line_table, has_elements, elements,
          has_lines, xray_lines, last, selected, signal_type, parsed, results,
          answer, intensity, width, acquisition, summed>>

env == <<has_beam, beam_energy, high_value, line_table, signal_type>>

\* what the registry calls and the selector leave alone
rest_of_state == <<parsed, results, answer, intensity>>

\* what only FWHM and sum touch
measurements == <<width, acquisition, summed>>

----------------------------------------------------------------------------
(* Bounds of the model *)

\* longest `lines` argument of add_lines / set_lines
MaxLines == 2
\* longest `elements` argument of add_elements / set_elements / the selector
MaxElems == 2
\* longest string given to _get_element_and_line
MaxIdLen == 5
\* most parts of a stack split into a stored result list
MaxParts == 2
\* depth at which the interpreter gives up on add_lines calling itself
RecursionLimit == 4

----------------------------------------------------------------------------
(* The element database (hyperspy.misc.elements), energies in 0.1 keV *)

elements_db ==
    [Fe |-> [Ka |-> 64, La |-> 7, Ll |-> 6],
     O  |-> [Ka |-> 5],
     Ti |-> [Ka |-> 45, La |-> 5]]

Sep == "_"

\* a generic permutation helper: the sequences listing every member of S once
Perms(S) ==
    {p \in [1..Cardinality(S) -> S] : \A x \in S : \E i \in DOMAIN p : p[i] = x}

\* every order in which the dicts of the database may list their keys
TableOrders == {t \in [DOMAIN elements_db -> UNION {Perms(DOMAIN elements_db[e]) : e \in DOMAIN elements_db}] :
                    \A e \in DOMAIN elements_db : t[e] \in Perms(DOMAIN elements_db[e])}

Range(s) == {s[i] : i \in DOMAIN s}

\* Python's order of the strings used here (code points: upper case < "_" < lower case)
TokenOrder == <<"Fe", "Ka", "Kb", "La", "Ll", "Ma", "O", "Ti", "Xx", "_">>

TokenRank(t) == CHOOSE i \in DOMAIN TokenOrder : TokenOrder[i] = t

\* s < t for two strings (sequences of tokens), as str.__lt__ orders them
RECURSIVE StrLess(_, _)
StrLess(s, t) ==
    IF t = <<>> THEN FALSE
    ELSE IF s = <<>> THEN TRUE
    ELSE IF Head(s) = Head(t) THEN StrLess(Tail(s), Tail(t))
    ELSE TokenRank(Head(s)) < TokenRank(Head(t))

\* the bug of sorting the line list in descending order
RECURSIVE SortedStrs_Descending(_)
SortedStrs_Descending(S) ==
    IF S = {} THEN <<>>
    ELSE LET m == CHOOSE x \in S : \A y \in S \ {x} : StrLess(y, x)
         IN  <<m>> \o SortedStrs_Descending(S \ {m})

\* sorted(list(S)) for a set of strings
RECURSIVE SortedStrs(_)
SortedStrs(S) ==
    IF S = {} THEN <<>>
    ELSE LET m == CHOOSE x \in S : \A y \in S \ {x} : StrLess(x, y)
         IN  <<m>> \o SortedStrs(S \ {m})

\* sorted(list(S)) for a set of element symbols
RECURSIVE SortedSymbols(_)
SortedSymbols(S) ==
    IF S = {} THEN <<>>
    ELSE LET m == CHOOSE x \in S : \A y \in S \ {x} : TokenRank(x) < TokenRank(y)
         IN  <<m>> \o SortedSymbols(S \ {m})

\* line.split("_"): the parts between the separators
RECURSIVE Split(_)
Split(s) ==
    IF \A i \in DOMAIN s : s[i] # Sep THEN <<s>>
    ELSE LET i == CHOOSE k \in DOMAIN s :
                      s[k] = Sep /\ \A j \in 1..(k - 1) : s[j] # Sep
         IN  <<SubSeq(s, 1, i - 1)>> \o Split(SubSeq(s, i + 1, Len(s)))

\* element + "_" + subshell
LineName(element, subshell) == <<element, Sep, subshell>>

\* `part in elements_db`: the text is exactly one database key
InDB(part) == Len(part) = 1 /\ part[1] \in DOMAIN elements_db

\* `part in elements_db[element]['Atomic_properties']['Xray_lines']`
IsLineOf(part, element) == Len(part) = 1 /\ part[1] \in DOMAIN elements_db[element]

\* line.split("_")[0] of a stored line, as a symbol
ElementOf(line) == Head(Split(line))[1]

\* line.split("_")[1] of a selected line, as a subshell name
SubshellOf(line) == Split(line)[2][1]

\* elements_db[element]['Atomic_properties']['Xray_lines'][subshell]['energy (keV)']
Energy(element, subshell) == elements_db[element][subshell]

EnergyOfLine(line) == Energy(ElementOf(line), SubshellOf(line))

----------------------------------------------------------------------------
(* Strings character by character: hyperspy.misc.eds.utils._get_element_and_line *)

\* the characters of a token
Spelling(token) ==
    CASE token = "Fe" -> <<"F", "e">>
      [] token = "O"  -> <<"O">>
      [] token = "Ti" -> <<"T", "i">>
      [] token = "Xx" -> <<"X", "x">>
      [] token = "Ka" -> <<"K", "a">>
      [] token = "Kb" -> <<"K", "b">>
      [] token = "La" -> <<"L", "a">>
      [] token = "Ll" -> <<"L", "l">>
      [] token = "Ma" -> <<"M", "a">>
      [] token = "Int" -> <<"I", "n", "t">>
      [] token = "std" -> <<"s", "t", "d">>
      [] token = "standard_spec" ->
             <<"s", "t", "a", "n", "d", "a", "r", "d", "_", "s", "p", "e", "c">>
      [] OTHER        -> <<token>>

\* a string of tokens as the string of its characters
RECURSIVE Chars(_)
Chars(s) == IF s = <<>> THEN <<>> ELSE Spelling(Head(s)) \o Chars(Tail(s))

\* s.find(c): the 0-based index of the first c in s, -1 when there is none
Find(s, c) ==
    IF \A i \in DOMAIN s : s[i] # c THEN -1
    ELSE (CHOOSE k \in DOMAIN s : s[k] = c /\ \A j \in 1..(k - 1) : s[j] # c) - 1

\* a slice bound as Python clamps it: a negative bound counts from the end
SliceBound(s, b) ==
    IF b < 0 THEN (IF Len(s) + b < 0 THEN 0 ELSE Len(s) + b)
    ELSE IF b > Len(s) THEN Len(s) ELSE b

\* s[start:stop]
Slice(s, start, stop) == SubSeq(s, SliceBound(s, start) + 1, SliceBound(s, stop))

\* _get_element_and_line(Xray_line): Xray_line[:lim], Xray_line[lim+1:]
GetElementAndLine(Xray_line) ==
    LET lim == Find(Xray_line, Sep)
    IN  [status |-> "ok", element |-> Slice(Xray_line, 0, lim),
         line |-> Slice(Xray_line, lim + 1, Len(Xray_line))]

----------------------------------------------------------------------------
(* The line selector: EDSSpectrum._get_lines_from_elements *)

\* only_lines is None, or a collection of subshell names
NoFilter == [none |-> TRUE, subs |-> {}]
Filter(S) == [none |-> FALSE, subs |-> S]

\* the default only_lines=("Ka", "La", "Ma")
DefaultOnlyLines == Filter({"Ka", "La", "Ma"})

\* bool(only_lines): None and the empty collection are both false
Truthy(only_lines) == ~only_lines.none /\ only_lines.subs # {}

\* the bug of leaving end_energy at the high value of the axis
EndEnergy_AxisOnly == high_value

\* end_energy: the high value of the energy axis, lowered to the beam energy
EndEnergy == IF beam_energy < high_value THEN beam_energy ELSE high_value

\* the inner loop over the keys of one element's line table, in table order
RECURSIVE ElementLines(_, _, _)
ElementLines(element, keys, only_lines) ==
    IF keys = <<>> THEN <<>>
    ELSE LET subshell == Head(keys)
             rest == ElementLines(element, Tail(keys), only_lines)
         IN  IF Truthy(only_lines) /\ subshell \notin only_lines.subs THEN rest
             ELSE IF Energy(element, subshell) < EndEnergy
                  THEN <<LineName(element, subshell)>> \o rest
                  ELSE rest

\* the candidate of highest energy below beam_energy / 2, else index -1
BestLine_Highest(element_lines) ==
    LET below == {i \in DOMAIN element_lines :
                      2 * EnergyOfLine(element_lines[i]) < beam_energy}
        select_this == IF below = {} THEN Len(element_lines)
                       ELSE CHOOSE i \in below : \A j \in below :
                                EnergyOfLine(element_lines[j]) <= EnergyOfLine(element_lines[i])
    IN  <<element_lines[select_this]>>

\* "Choose the best line": the first candidate below beam_energy / 2, else index -1
BestLine(element_lines) ==
    LET below == {i \in DOMAIN element_lines :
                      2 * EnergyOfLine(element_lines[i]) < beam_energy}
        select_this == IF below = {} THEN Len(element_lines)
                       ELSE CHOOSE i \in below : \A j \in below : i <= j
    IN  <<element_lines[select_this]>>

\* the outer loop over the requested elements
RECURSIVE LinesOfElements(_, _, _)
LinesOfElements(elems, only_one, only_lines) ==
    IF elems = <<>> THEN <<>>
    ELSE LET element == Head(elems)
             element_lines == ElementLines(element, line_table[element], only_lines)
             chosen == IF only_one /\ element_lines # <<>>
                       THEN BestLine(element_lines) ELSE element_lines
         IN  chosen \o LinesOfElements(Tail(elems), only_one, only_lines)

\* the whole call: AttributeError when no beam energy is defined
GetLinesFromElements(elems, only_one, only_lines) ==
    IF ~has_beam THEN [status |-> "AttributeError", lines |-> <<>>]
    ELSE [status |-> "ok", lines |-> LinesOfElements(elems, only_one, only_lines)]

----------------------------------------------------------------------------
(* The registry: set_elements, add_elements, set_lines, add_lines *)

Registry == [has_elements |-> has_elements, elements |-> elements,
             has_lines |-> has_lines, xray_lines |-> xray_lines]

\* the loop of add_elements over its argument: FALSE once a symbol is not a key
RECURSIVE AllInDB(_)
AllInDB(items) ==
    IF items = <<>> THEN TRUE
    ELSE IF Head(items) \in DOMAIN elements_db THEN AllInDB(Tail(items))
    ELSE FALSE

\* the bug of extending the stored list instead of rebuilding it from a set
AddElements_Append(reg, arg) ==
    IF arg.is_str \/ ~AllInDB(arg.items) THEN [status |-> "ValueError", reg |-> reg]
    ELSE [status |-> "ok",
          reg |-> [reg EXCEPT !.has_elements = TRUE,
                              !.elements = (IF reg.has_elements THEN reg.elements
                                            ELSE <<>>) \o arg.items]]

\* the bug of storing the argument in place of the stored list
AddElements_Replace(reg, arg) ==
    IF arg.is_str \/ ~AllInDB(arg.items) THEN [status |-> "ValueError", reg |-> reg]
    ELSE [status |-> "ok",
          reg |-> [reg EXCEPT !.has_elements = TRUE,
                              !.elements = SortedSymbols(Range(arg.items))]]

\* add_elements(elements); arg.is_str: the argument is a plain string
AddElements(reg, arg) ==
    IF arg.is_str THEN [status |-> "ValueError", reg |-> reg]
    ELSE LET elements_ == IF reg.has_elements THEN Range(reg.elements) ELSE {}
         IN  IF ~AllInDB(arg.items) THEN [status |-> "ValueError", reg |-> reg]
             ELSE [status |-> "ok",
                   reg |-> [reg EXCEPT !.has_elements = TRUE,
                                       !.elements = SortedSymbols(elements_ \cup Range(arg.items))]]

\* the bug of not deleting the stored element list
SetElements_KeepStored(reg, arg) == AddElements(reg, arg)

\* set_elements(elements): del Sample.elements, then add_elements
SetElements(reg, arg) ==
    AddElements([reg EXCEPT !.has_elements = FALSE, !.elements = <<>>], arg)

ListArg(items) == [is_str |-> FALSE, items |-> items]

\* the bug of validating the first identifier only
CheckLines_FirstOnly(lines, elems, Xray_lines) ==
    IF lines = <<>>
    THEN [error |-> FALSE, elements |-> elems, Xray_lines |-> Xray_lines]
    ELSE LET parts == Split(Head(lines))
         IN  IF Len(parts) = 2 /\ InDB(parts[1]) /\ IsLineOf(parts[2], parts[1][1])
             THEN [error |-> FALSE, elements |-> elems \cup {parts[1][1]},
                   Xray_lines |-> Xray_lines \cup Range(lines)]
             ELSE [error |-> TRUE, elements |-> elems, Xray_lines |-> Xray_lines]

\* the bug of not looking the subshell up in the line table of the element
RECURSIVE CheckLines_AnySubshell(_, _, _)
CheckLines_AnySubshell(lines, elems, Xray_lines) ==
    IF lines = <<>>
    THEN [error |-> FALSE, elements |-> elems, Xray_lines |-> Xray_lines]
    ELSE LET line == Head(lines)
             parts == Split(line)
         IN  IF Len(parts) # 2 \/ ~InDB(parts[1])
             THEN [error |-> TRUE, elements |-> elems, Xray_lines |-> Xray_lines]
             ELSE CheckLines_AnySubshell(Tail(lines), elems \cup {parts[1][1]},
                                         Xray_lines \cup {line})

\* the loop of add_lines over `lines`: every identifier is split and looked up
RECURSIVE CheckLines(_, _, _)
CheckLines(lines, elems, Xray_lines) ==
    IF lines = <<>>
    THEN [error |-> FALSE, elements |-> elems, Xray_lines |-> Xray_lines]
    ELSE LET line == Head(lines)
             parts == Split(line)
             failed == [error |-> TRUE, elements |-> elems, Xray_lines |-> Xray_lines]
         IN  IF Len(parts) # 2 THEN failed
             ELSE IF ~InDB(parts[1]) THEN failed
             ELSE IF ~IsLineOf(parts[2], parts[1][1]) THEN failed
             ELSE CheckLines(Tail(lines), elems \cup {parts[1][1]},
                             Xray_lines \cup {line})

\* the bug of not counting the stored lines' elements as customized
Customized_None(stored) == {}

\* "the elements which Xray lines has been customized": those of the stored lines
Customized(stored) == {ElementOf(line) : line \in stored}

\* add_lines(lines, only_one, only_lines), `depth` frames below the caller's
RECURSIVE AddLinesAt(_, _, _, _, _)
AddLinesAt(reg, lines, only_one, only_lines, depth) ==
    IF depth > RecursionLimit THEN [status |-> "RuntimeError", reg |-> reg]
    ELSE
    LET stored == IF reg.has_lines THEN Range(reg.xray_lines) ELSE {}
        customized == Customized(stored)
        checked == CheckLines(lines, customized, stored)
        extra_elements == Range(reg.elements) \ checked.elements
        new_lines == GetLinesFromElements(SortedSymbols(extra_elements),
                                          only_one, only_lines)
        nested == IF reg.has_elements /\ extra_elements # {} /\ new_lines.status = "ok"
                     /\ new_lines.lines # <<>>
                  THEN AddLinesAt(reg, new_lines.lines, TRUE, DefaultOnlyLines, depth + 1)
                  ELSE [status |-> "ok", reg |-> reg]
        with_elements == AddElements(nested.reg,
                                     ListArg(SortedSymbols(checked.elements))).reg
        all_lines == checked.Xray_lines \cup
                     (IF with_elements.has_lines THEN Range(with_elements.xray_lines) ELSE {})
    IN  IF checked.error THEN [status |-> "ValueError", reg |-> reg]
        ELSE IF reg.has_elements /\ extra_elements # {} /\ new_lines.status # "ok"
             THEN [status |-> new_lines.status, reg |-> reg]
        ELSE IF nested.status # "ok" THEN nested
        ELSE [status |-> "ok",
              reg |-> [with_elements EXCEPT !.has_lines = TRUE,
                                            !.xray_lines = SortedStrs(all_lines)]]

AddLines(reg, lines, only_one, only_lines) ==
    AddLinesAt(reg, lines, only_one, only_lines, 0)

\* the bug of not deleting the stored line list
SetLines_KeepStored(reg, lines, only_one, only_lines) ==
    AddLines(reg, lines, only_one, only_lines)

\* set_lines(lines, only_one, only_lines): del Sample.Xray_lines, then add_lines
SetLines(reg, lines, only_one, only_lines) ==
    AddLines([reg EXCEPT !.has_lines = FALSE, !.xray_lines = <<>>],
             lines, only_one, only_lines)

----------------------------------------------------------------------------
(* The result store: the list metadata.Sample[result], one entry per line or
   element, each a signal with a title and its data (one value per pixel).
   utils._set_result_signal_list (written against the older attribute name
   mapped_parameters of the same metadata tree) splits a stack into the list;
   get_result, _set_result and normalize_result read and write it. *)

\* `key in title`: key is a run of consecutive characters of title
Substring(key, title) ==
    \E i \in 1..(Len(title) + 1) :
        /\ i + Len(key) - 1 <= Len(title)
        /\ SubSeq(title, i, i + Len(key) - 1) = key

\* result + ' ' + Xray_line
TitleOf(result, name) == Chars(<<result, " ">>) \o name

\* el + '_std'
StandardTitle(el) == el \o Chars(<<Sep, "std">>)

\* the title _set_result_signal_list gives part i (1-based) of n parts
PartTitle(reg, result, n, i) ==
    LET by_lines == n = Len(reg.xray_lines)
    IN  IF result = "standard_spec"
        THEN StandardTitle(IF by_lines
                           THEN GetElementAndLine(Chars(reg.xray_lines[i])).element
                           ELSE Chars(<<reg.elements[i]>>))
        ELSE IF by_lines THEN TitleOf(result, Chars(reg.xray_lines[i]))
        ELSE IF n = Len(reg.elements) THEN TitleOf(result, Chars(<<reg.elements[i]>>))
        ELSE <<>>

\* _set_result_signal_list(mp, result) on a stack of the parts `parts`
SetResultSignalList(reg, result, parts) ==
    LET n == Len(parts)
        by_lines == reg.has_lines /\ n = Len(reg.xray_lines)
    IN  IF n = 0 THEN [status |-> "ok", entries |-> <<>>]
        ELSE IF ~reg.has_lines THEN [status |-> "AttributeError", entries |-> <<>>]
        ELSE IF ~by_lines /\ ~reg.has_elements
             THEN [status |-> "AttributeError", entries |-> <<>>]
        ELSE IF result = "standard_spec" /\ ~by_lines /\ n > Len(reg.elements)
             THEN [status |-> "IndexError", entries |-> <<>>]
        ELSE [status |-> "ok",
              entries |-> [i \in 1..n |-> [title |-> PartTitle(reg, result, n, i),
                                           data |-> parts[i]]]]

\* get_result(Xray_line, result): the first entry whose title contains the key
GetResult(stored, Xray_line) ==
    IF ~stored.has THEN [status |-> "AttributeError", index |-> 0]
    ELSE LET found == {i \in DOMAIN stored.entries :
                           Substring(Xray_line, stored.entries[i].title)}
         IN  IF found = {} THEN [status |-> "ValueError", index |-> 0]
             ELSE [status |-> "ok",
                   index |-> CHOOSE i \in found : \A k \in found : i <= k]

\* the loop of _set_result over the registry list: the 1-based position of the
\* key, the last position when the key is not there, 0 when j is never bound
SlotOf(reg, Xray_line) ==
    IF ~reg.has_lines THEN 0
    ELSE LET Xray_lines == IF Len(Xray_line) < 3
                           THEN [i \in DOMAIN reg.elements |-> Chars(<<reg.elements[i]>>)]
                           ELSE [i \in DOMAIN reg.xray_lines |-> Chars(reg.xray_lines[i])]
             found == {i \in DOMAIN Xray_lines : Xray_lines[i] = Xray_line}
         IN  IF found = {} THEN Len(Xray_lines)
             ELSE CHOOSE i \in found : TRUE

\* _set_result(Xray_line, result, data_res, plot_result, store_in_mp)
SetResult(reg, stored, Xray_line, data_res, store_in_mp) ==
    LET j == SlotOf(reg, Xray_line)
        res_img == [title |-> TitleOf(stored.kind, Xray_line), data |-> data_res]
        same == [status |-> "ok", stored |-> stored, returned |-> <<res_img>>]
    IN  IF reg.has_lines /\ Len(Xray_line) < 3 /\ ~reg.has_elements
        THEN [same EXCEPT !.status = "AttributeError", !.returned = <<>>]
        ELSE IF ~store_in_mp THEN same
        ELSE IF ~stored.has
             THEN [same EXCEPT !.status = "AttributeError", !.returned = <<>>]
        ELSE IF j = 0
             THEN [same EXCEPT !.status = "UnboundLocalError", !.returned = <<>>]
        ELSE IF j > Len(stored.entries)
             THEN [same EXCEPT !.status = "IndexError", !.returned = <<>>]
        ELSE [status |-> "ok", returned |-> <<>>,
              stored |-> [stored EXCEPT !.entries[j] = res_img]]

\* the values of the data are fractions <<numerator, denominator>>, so that
\* the true division of normalize_result is computed; <<n, 0>> is inf or nan
Raw(n) == <<n, 1>>
Plus(a, b) == <<a[1] * b[2] + b[1] * a[2], a[2] * b[2]>>
Over(a, b) == <<a[1] * b[2], a[2] * b[1]>>

\* the sum of pixel p over the entries: utils.stack(res).sum(...)
RECURSIVE PixelSum(_, _)
PixelSum(entries, p) ==
    IF entries = <<>> THEN Raw(0)
    ELSE Plus(Head(entries).data[p], PixelSum(Tail(entries), p))

\* the bug of normalizing the stored entries themselves (no deepcopy)
NormalizeResult_InPlace(stored, return_element) ==
    IF ~stored.has \/ stored.entries = <<>>
    THEN [status |-> "AttributeError", returned |-> <<>>, stored |-> stored]
    ELSE LET res == [r \in DOMAIN stored.entries |->
                        [title |-> stored.entries[r].title,
                         data |-> [p \in DOMAIN stored.entries[r].data |->
                                      Over(stored.entries[r].data[p],
                                           PixelSum(stored.entries, p))]]]
         IN  [status |-> "ok", returned |-> res,
              stored |-> [stored EXCEPT !.entries = res]]

\* normalize_result(result, return_element): works on a deep copy of the list
NormalizeResult(stored, return_element) ==
    IF ~stored.has THEN [status |-> "AttributeError", returned |-> <<>>, stored |-> stored]
    ELSE IF stored.entries = <<>>
         THEN [status |-> "StackError", returned |-> <<>>, stored |-> stored]
    ELSE LET res == [r \in DOMAIN stored.entries |->
                        [title |-> stored.entries[r].title,
                         data |-> [p \in DOMAIN stored.entries[r].data |->
                                      Over(stored.entries[r].data[p],
                                           PixelSum(stored.entries, p))]]]
             found == {i \in DOMAIN res : Substring(return_element.key, res[i].title)}
         IN  IF return_element.all
             THEN [status |-> "ok", returned |-> res, stored |-> stored]
             ELSE IF found = {}
                  THEN [status |-> "ok", returned |-> <<>>, stored |-> stored]
             ELSE [status |-> "ok", stored |-> stored,
                   returned |-> <<res[CHOOSE i \in found : \A k \in found : i <= k]>>]

----------------------------------------------------------------------------
(* The intensity extractor: EDSSpectrum.get_lines_intensity.  The host signal,
   the resolution function utils_eds.get_FWHM_at_Energy and the fitting engine
   are collaborators: the model keeps the lines, the signal the model is built
   on, the components and what ties them, and what the fit leaves in them. *)

\* elements_db[element]['Atomic_properties']['Xray_lines'][subshell]['factor'], in percent
line_factor ==
    [Fe |-> [Ka |-> 100, La |-> 100, Ll |-> 31],
     O  |-> [Ka |-> 100],
     Ti |-> [Ka |-> 100, La |-> 100]]

\* the energies of the channels of a standard spectrum, in 0.1 keV; the window
\* of 1.5 FWHM on each side of a line holds the channel at its energy only
ChannelEnergy == <<5, 64>>

\* the keys of a dict that are the string `chars`
KeysFor(chars, keys) == {k \in keys : Spelling(k) = chars}

\* std[:line_energy - 1.5 * line_FWHM] = 0; std[line_energy + 1.5 * line_FWHM:] = 0
Windowed(data, line_energy) ==
    [p \in DOMAIN data |-> IF ChannelEnergy[p] = line_energy THEN data[p] ELSE Raw(0)]

\* the secondary lines of a line: `line[0] in li and line != li`, in table order
RECURSIVE SecondaryLines(_, _)
SecondaryLines(subshell, keys) ==
    IF keys = <<>> THEN <<>>
    ELSE LET li == Head(keys)
             rest == SecondaryLines(subshell, Tail(keys))
         IN  IF Substring(<<Spelling(subshell)[1]>>, Spelling(li)) /\ subshell # li
             THEN <<li>> \o rest ELSE rest

\* the bug of appending no component for the secondary lines
Twins_None(element, secondary, primary) == <<>>

\* the Gaussians twinned to the component at position `primary` of the model
Twins(element, secondary, primary) ==
    [i \in DOMAIN secondary |->
        [name |-> Chars(LineName(element, secondary[i])), twin |-> primary,
         element |-> element, subshell |-> secondary[i]]]

\* one turn of the loop over Xray_lines that builds the model m and the list
\* fps and, in 'standard' mode, cuts the stored standard; ratio_line is the
\* variable the twin functions read when they are called
AppendComponents(Xray_line, lines_deconvolution, built) ==
    LET parts == GetElementAndLine(Chars(Xray_line))
        els == KeysFor(parts.element, DOMAIN elements_db)
        element == CHOOSE e \in els : TRUE
        subs == KeysFor(parts.line, DOMAIN elements_db[element])
        subshell == CHOOSE sub \in subs : TRUE
        std == GetResult(built.stored, parts.element)
        secondary == SecondaryLines(subshell, line_table[element])
        fp == [name |-> Chars(Xray_line), twin |-> 0, element |-> element,
               subshell |-> subshell]
    IN  IF els = {} THEN [built EXCEPT !.status = "KeyError"]
        ELSE IF subs = {} THEN [built EXCEPT !.status = "KeyError"]
        ELSE IF lines_deconvolution = "model"
             THEN [built EXCEPT
                       !.fps = @ \o <<Len(built.m) + 1>>,
                       !.m = @ \o <<fp>> \o Twins(element, secondary, Len(built.m) + 1),
                       !.ratio_line = IF secondary = <<>> THEN @
                                      ELSE line_factor[element][secondary[Len(secondary)]]]
        ELSE IF built.stored.kind # "standard_spec"
             THEN [built EXCEPT !.status = "AttributeError"]
        ELSE IF std.status # "ok" THEN [built EXCEPT !.status = std.status]
        ELSE [built EXCEPT
                  !.fps = @ \o <<Len(built.m) + 1>>,
                  !.m = @ \o <<fp>>,
                  !.stored.entries[std.index].data = Windowed(@, Energy(element, subshell))]

\* the loop over Xray_lines: it stops at the first line that raises
RECURSIVE BuildModel(_, _, _)
BuildModel(Xray_lines, lines_deconvolution, built) ==
    IF Xray_lines = <<>> \/ built.status # "ok" THEN built
    ELSE CHOOSE r \in {BuildModel(Tail(Xray_lines), lines_deconvolution, next) :
                          next \in {AppendComponents(Head(Xray_lines),
                                                     lines_deconvolution, built)}} : TRUE

\* the direct mode: one window sum per line, after the line is looked up
RECURSIVE DirectIntensities(_)
DirectIntensities(Xray_lines) ==
    IF Xray_lines = <<>> THEN [status |-> "ok", intensities |-> <<>>]
    ELSE LET parts == GetElementAndLine(Chars(Head(Xray_lines)))
             els == KeysFor(parts.element, DOMAIN elements_db)
             subs == KeysFor(parts.line, DOMAIN elements_db[CHOOSE e \in els : TRUE])
             rest == DirectIntensities(Tail(Xray_lines))
         IN  IF els = {} \/ subs = {} \/ rest.status # "ok"
             THEN [status |-> "KeyError", intensities |-> <<>>]
             ELSE [status |-> "ok",
                   intensities |-> <<[line |-> Chars(Head(Xray_lines)), amplitude |-> <<>>]>>
                                       \o rest.intensities]

\* the lines the call works on: the argument, the stored lines, or the
\* selector's choice for the stored elements
ResolvedLines(reg, Xray_lines, only_one, only_lines) ==
    IF ~Xray_lines.none THEN [status |-> "ok", lines |-> Xray_lines.lines]
    ELSE IF reg.has_lines THEN [status |-> "ok", lines |-> reg.xray_lines]
    ELSE IF reg.has_elements THEN GetLinesFromElements(reg.elements, only_one, only_lines)
    ELSE [status |-> "ValueError", lines |-> <<>>]

\* the amplitude of a component when the fit runs: a primary has the value the
\* fit gives it, a twin the twin function's value ratio_line / 100 times that
AmplitudeAtFit(m, k, A, ratio_line) ==
    IF m[k].twin = 0 THEN Raw(A[k])
    ELSE Over(Raw(A[m[k].twin] * ratio_line), Raw(100))

\* the bug of subtracting the background in 'standard' mode instead
FittedSignal_Swapped(lines_deconvolution, bck) ==
    IF lines_deconvolution = "standard" THEN [subtracted |-> TRUE, bck |-> bck]
    ELSE [subtracted |-> FALSE, bck |-> 0]

\* the signal create_model is given: self for 'standard', self - bck otherwise
FittedSignal(lines_deconvolution, bck) ==
    IF lines_deconvolution = "standard" THEN [subtracted |-> FALSE, bck |-> 0]
    ELSE [subtracted |-> TRUE, bck |-> bck]

NoFit == [signal |-> [subtracted |-> FALSE, bck |-> 0], m |-> <<>>, amplitudes |-> <<>>,
          runs |-> 0]

\* from m.multifit() to the return, once the model is built
FitAndCollect(call, fit, lines, built) ==
    LET amplitudes == [k \in DOMAIN built.m |->
                          AmplitudeAtFit(built.m, k, fit.A, built.ratio_line)]
        signal == FittedSignal(call.lines_deconvolution, call.bck)
        failed == [status |-> built.status, intensities |-> <<>>, stored |-> built.stored,
                   fit |-> NoFit, lines |-> lines]
    IN  IF built.status # "ok" THEN failed
        ELSE IF ~fit.ok
             THEN [failed EXCEPT !.status = "FitError",
                                 !.fit = [signal |-> signal, m |-> built.m,
                                          amplitudes |-> <<>>, runs |-> 1]]
        ELSE IF call.plot_result /\ lines = <<>>
             THEN [failed EXCEPT !.status = "UnboundLocalError",
                                 !.fit = [signal |-> signal, m |-> built.m,
                                          amplitudes |-> amplitudes, runs |-> 1]]
        ELSE [failed EXCEPT
                  !.intensities = [i \in DOMAIN built.fps |->
                                      [line |-> Chars(lines[i]),
                                       amplitude |-> amplitudes[built.fps[i]]]],
                  !.fit = [signal |-> signal, m |-> built.m,
                           amplitudes |-> amplitudes, runs |-> 1]]

\* get_lines_intensity once Xray_lines is resolved
IntensitiesOf(stored, call, fit, resolved) ==
    LET failed == [status |-> "ok", intensities |-> <<>>, stored |-> stored,
                   fit |-> NoFit, lines |-> resolved.lines]
        direct == DirectIntensities(resolved.lines)
    IN  IF resolved.status # "ok" THEN [failed EXCEPT !.status = resolved.status]
        ELSE IF signal_type \notin {"EDS_SEM", "EDS_TEM"}
             THEN [failed EXCEPT !.status = "NotImplementedError"]
        ELSE IF call.lines_deconvolution = "None"
             THEN IF direct.status # "ok" THEN [failed EXCEPT !.status = direct.status]
                  ELSE IF call.plot_result /\ resolved.lines = <<>>
                       THEN [failed EXCEPT !.status = "UnboundLocalError"]
                  ELSE [failed EXCEPT !.intensities = direct.intensities]
        ELSE CHOOSE r \in {FitAndCollect(call, fit, resolved.lines, built) :
                              built \in {BuildModel(resolved.lines, call.lines_deconvolution,
                                                    [status |-> "ok", fps |-> <<>>,
                                                     m |-> <<>>, ratio_line |-> 0,
                                                     stored |-> stored])}} : TRUE

\* get_lines_intensity(Xray_lines, plot_result, ..., only_one, only_lines,
\* lines_deconvolution, bck), the arguments in the record `call`; fit: what
\* m.multifit() does, A[k] the value it leaves in the free amplitude of
\* component k
GetLinesIntensity(reg, stored, call, fit) ==
    CHOOSE r \in {IntensitiesOf(stored, call, fit, resolved) :
                     resolved \in {ResolvedLines(reg, call.Xray_lines, call.only_one,
                                                 call.only_lines)}} : TRUE

----------------------------------------------------------------------------
(* The resolution model: hyperspy.misc.eds.utils.FWHM.  FWHM_ref is in eV, the
   energies are in 0.1 keV as in elements_db, and a returned width is kept as
   the non-negative number whose square is the fraction `squared` (in keV^2),
   so that math.sqrt is exact. *)

\* math.sqrt(x) for x >= 0
Root(x) == [squared |-> x]

NoRoot == Root(Raw(0))

\* FWHM(FWHM_ref, E, line_ref) with no conversion of the result to keV
FWHM_InEV(FWHM_ref, E, line_ref) ==
    LET parts == GetElementAndLine(line_ref)
        els == KeysFor(parts.element, DOMAIN elements_db)
        element == CHOOSE e \in els : TRUE
        subs == KeysFor(parts.line, DOMAIN elements_db[element])
        E_ref == Energy(element, CHOOSE sub \in subs : TRUE)
        FWHM_e == 250 * (E - E_ref) + FWHM_ref * FWHM_ref
    IN  IF els = {} \/ subs = {} THEN [status |-> "KeyError", returned |-> NoRoot]
        ELSE IF FWHM_e < 0 THEN [status |-> "ValueError", returned |-> NoRoot]
        ELSE [status |-> "ok", returned |-> Root(<<FWHM_e, 1>>)]

\* FWHM(FWHM_ref, E, line_ref): 2.5 * (E - E_ref) * 1000 is 250 * (E - E_ref)
\* with the energies in 0.1 keV, and sqrt(x) / 1000 is the root of x / 1000000
FWHM(FWHM_ref, E, line_ref) ==
    LET parts == GetElementAndLine(line_ref)
        els == KeysFor(parts.element, DOMAIN elements_db)
        element == CHOOSE e \in els : TRUE
        subs == KeysFor(parts.line, DOMAIN elements_db[element])
        E_ref == Energy(element, CHOOSE sub \in subs : TRUE)
        FWHM_e == 250 * (E - E_ref) + FWHM_ref * FWHM_ref
    IN  IF els = {} \/ subs = {} THEN [status |-> "KeyError", returned |-> NoRoot]
        ELSE IF FWHM_e < 0 THEN [status |-> "ValueError", returned |-> NoRoot]
        ELSE [status |-> "ok", returned |-> Root(<<FWHM_e, 1000 * 1000>>)]

----------------------------------------------------------------------------
(* EDSSpectrum.sum: the microscope nodes metadata.SEM and metadata.TEM, each
   with or without an EDS node and a live_time, and axes_manager.shape *)

Absent == [present |-> FALSE, has_EDS |-> FALSE, has_live_time |-> FALSE, live_time |-> 0]

\* a node with an EDS.live_time of t
Timed(t) == [present |-> TRUE, has_EDS |-> TRUE, has_live_time |-> TRUE, live_time |-> t]

\* a spectrum with neither metadata.SEM nor metadata.TEM and no navigation axis
NoAcquisition == [SEM |-> Absent, TEM |-> Absent, shape |-> <<1>>]

\* tuple[axis] of Python: the 1-based position, 0 when it raises IndexError
Position(shape, axis) ==
    IF axis >= 0 /\ axis < Len(shape) THEN axis + 1
    ELSE IF axis < 0 /\ axis >= -Len(shape) THEN Len(shape) + axis + 1
    ELSE 0

\* the signal Signal.sum(axis) returns: a new signal with a copy of the
\* metadata as it is when Signal.sum runs, and the summed axis removed
SignalSum(acq, axis) ==
    [acq EXCEPT !.shape = SubSeq(@, 1, Position(@, axis) - 1)
                          \o SubSeq(@, Position(@, axis) + 1, Len(@))]

\* sum(axis) on the spectrum acq
Sum(acq, axis) ==
    LET node == IF acq.SEM.present THEN "SEM" ELSE "TEM"
        mp == acq[node]
        failed == [status |-> "ok", acquisition |-> acq, returned |-> NoAcquisition]
        timed == [acq EXCEPT ![node].live_time = @ * acq.shape[Position(acq.shape, axis)]]
    IN  IF ~mp.present THEN [failed EXCEPT !.status = "AttributeError"]
        ELSE IF Position(acq.shape, axis) = 0 THEN [failed EXCEPT !.status = "IndexError"]
        ELSE IF mp.has_EDS /\ mp.has_live_time
             THEN [failed EXCEPT !.acquisition = timed, !.returned = SignalSum(timed, axis)]
        ELSE [failed EXCEPT !.returned = SignalSum(acq, axis)]

----------------------------------------------------------------------------
(* Arguments the callers pass *)

\* the valid identifiers the callers give: "Fe_Ka", "O_Ka"
ValidLines == {LineName("Fe", "Ka"), LineName("O", "Ka")}

\* "FeKa" (no separator), "Fe_Ka_" (two separators), "Xx_Ka" (no such element),
\* "O_La" (no such line of O)
BadLines == {<<"Fe", "Ka">>, <<"Fe", Sep, "Ka", Sep>>, <<"Xx", Sep, "Ka">>,
             <<"O", Sep, "La">>}

SeqsUpTo(S, n) == UNION {[1..k -> S] : k \in 0..n}

LineArgs == SeqsUpTo(ValidLines \cup BadLines, MaxLines)

OnlyLinesArgs == {NoFilter, DefaultOnlyLines, Filter({}), Filter({"Ll"})}

\* a list or tuple of symbols, or a plain string
ElementArgs == {ListArg(items) : items \in SeqsUpTo({"Fe", "O", "Xx"}, MaxElems)}
                   \cup {[is_str |-> TRUE, items |-> <<"Fe">>]}

BeamEnergies == {10, 100, 200}
HighValues == {7, 100}

\* the key order of the line tables in the registry runs
DeclaredTable == [Fe |-> <<"Ka", "La", "Ll">>, O |-> <<"Ka">>, Ti |-> <<"Ka", "La">>]

----------------------------------------------------------------------------
(* The state machine of the registry *)

NoCall == [op |-> "none", lines |-> <<>>, only_one |-> TRUE, only_lines |-> NoFilter,
           arg |-> ListArg(<<>>), status |-> "none",
           before |-> [has_elements |-> FALSE, elements |-> <<>>,
                       has_lines |-> FALSE, xray_lines |-> <<>>]]

NoSelection == [elements |-> <<>>, only_one |-> FALSE, only_lines |-> NoFilter,
                status |-> "none", lines |-> <<>>]

\* the spectra of the registry runs: no beam energy, or <<beam energy, high value>>
RegistryBeams == {<<10, 100>>, <<200, 7>>, <<200, 100>>}

InitEnv ==
    \/ /\ has_beam = FALSE
       /\ beam_energy = 0
       /\ high_value = 100
    \/ /\ has_beam = TRUE
       /\ \E b \in RegistryBeams : beam_energy = b[1] /\ high_value = b[2]

NoParse == [identifier |-> <<>>, status |-> "none", element |-> <<>>, line |-> <<>>]

NoResults == [has |-> FALSE, kind |-> "Int", entries |-> <<>>]

NoAnswer == [op |-> "none", key |-> <<>>, data |-> <<>>, store_in_mp |-> FALSE,
             return_element |-> [all |-> TRUE, key |-> <<>>], status |-> "none",
             index |-> 0, returned |-> <<>>, before |-> NoResults]

NoIntensity == [status |-> "none", Xray_lines |-> [none |-> TRUE, lines |-> <<>>],
                plot_result |-> FALSE, only_one |-> TRUE, only_lines |-> NoFilter,
                lines_deconvolution |-> "None", bck |-> 0, lines |-> <<>>,
                intensities |-> <<>>,
                fit |-> NoFit, before |-> NoResults]

NoWidth == [status |-> "none", FWHM_ref |-> 0, E |-> 0, line_ref |-> <<>>,
            returned |-> NoRoot]

NoSum == [status |-> "none", axis |-> 0, before |-> NoAcquisition,
          returned |-> NoAcquisition]

InitMeasurements ==
    /\ width = NoWidth
    /\ acquisition = NoAcquisition
    /\ summed = NoSum

InitRegistry ==
    /\ has_elements = FALSE
    /\ elements = <<>>
    /\ has_lines = FALSE
    /\ xray_lines = <<>>
    /\ last = NoCall
    /\ selected = NoSelection
    /\ signal_type = "EDS_SEM"
    /\ parsed = NoParse
    /\ results = NoResults
    /\ answer = NoAnswer
    /\ intensity = NoIntensity
    /\ InitMeasurements

Init ==
    /\ InitEnv
    /\ line_table = DeclaredTable
    /\ InitRegistry

\* the registry after a call, and the record of the call
Store(r, call) ==
    /\ has_elements' = r.reg.has_elements
    /\ elements' = r.reg.elements
    /\ has_lines' = r.reg.has_lines
    /\ xray_lines' = r.reg.xray_lines
    /\ last' = [call EXCEPT !.status = r.status, !.before = Registry]
    /\ UNCHANGED <<measurements, env, selected, rest_of_state>>

CallAddElements ==
    /\ last.op = "none"
    /\ \E arg \in ElementArgs :
           Store(AddElements(Registry, arg),
                 [NoCall EXCEPT !.op = "add_elements", !.arg = arg])

CallSetElements ==
    /\ last.op = "none"
    /\ \E arg \in ElementArgs :
           Store(SetElements(Registry, arg),
                 [NoCall EXCEPT !.op = "set_elements", !.arg = arg])

CallAddLines ==
    /\ last.op = "none"
    /\ \E lines \in LineArgs, only_one \in BOOLEAN, only_lines \in OnlyLinesArgs :
           Store(AddLines(Registry, lines, only_one, only_lines),
                 [NoCall EXCEPT !.op = "add_lines", !.lines = lines,
                                !.only_one = only_one, !.only_lines = only_lines])

CallSetLines ==
    /\ last.op = "none"
    /\ \E lines \in LineArgs, only_one \in BOOLEAN, only_lines \in OnlyLinesArgs :
           Store(SetLines(Registry, lines, only_one, only_lines),
                 [NoCall EXCEPT !.op = "set_lines", !.lines = lines,
                                !.only_one = only_one, !.only_lines = only_lines])

\* the call is over: the caller goes on to its next call
Return ==
    /\ last.op # "none"
    /\ last' = NoCall
    /\ UNCHANGED <<measurements, env, has_elements, elements, has_lines, xray_lines, selected, rest_of_state>>

Next ==
    \/ CallAddElements
    \/ CallSetElements
    \/ CallAddLines
    \/ CallSetLines
    \/ Return

Spec == Init /\ [][Next]_vars

\* the runs in which no call raises
NextOk ==
    \/ CallAddElements /\ last'.status = "ok"
    \/ CallSetElements /\ last'.status = "ok"
    \/ CallAddLines /\ last'.status = "ok"
    \/ CallSetLines /\ last'.status = "ok"
    \/ Return

SpecOk == Init /\ [][NextOk]_vars

----------------------------------------------------------------------------
(* The line selector on its own: every spectrum, every key order, one call *)

InitSel ==
    /\ has_beam \in BOOLEAN
    /\ beam_energy \in (IF has_beam THEN BeamEnergies ELSE {0})
    /\ high_value \in HighValues
    /\ line_table \in TableOrders
    /\ InitRegistry

CallGetLines ==
    /\ selected.status = "none"
    /\ \E elems \in SeqsUpTo(DOMAIN elements_db, MaxElems),
          only_one \in BOOLEAN, only_lines \in OnlyLinesArgs :
           LET r == GetLinesFromElements(elems, only_one, only_lines)
           IN  selected' = [elements |-> elems, only_one |-> only_one,
                            only_lines |-> only_lines, status |-> r.status,
                            lines |-> r.lines]
    /\ UNCHANGED <<measurements, env, has_elements, elements, has_lines, xray_lines, last, rest_of_state>>

SpecSel == InitSel /\ [][CallGetLines]_vars

----------------------------------------------------------------------------
(* Vocabulary of the properties *)

StoredLines == IF has_lines THEN Range(xray_lines) ELSE {}
StoredElements == IF has_elements THEN Range(elements) ELSE {}
LinesBefore == IF last.before.has_lines THEN Range(last.before.xray_lines) ELSE {}
ElementsBefore == IF last.before.has_elements THEN Range(last.before.elements) ELSE {}

Returned(op) == last.op = op /\ last.status = "ok"

\* the lines a call added on its own: stored now, not stored before, not given
AutoAdded == (StoredLines \ LinesBefore) \ Range(last.lines)

\* the registry elements with neither a stored line nor a line in `lines`
Uncovered ==
    ElementsBefore \ ({ElementOf(l) : l \in LinesBefore}
                          \cup {ElementOf(l) : l \in Range(last.lines)})

----------------------------------------------------------------------------
(* C1: after any sequence of successful set_elements, add_elements, set_lines
   and add_lines calls, the element of every stored X-ray line is in the
   stored element list.  Stated as the claim has it; set_elements breaks it. *)
C1_LineElementsStored ==
    \A l \in StoredLines : ElementOf(l) \in StoredElements

(* C2: when add_lines has returned, running it again with the same arguments
   on the same spectrum returns too and leaves the stored lines and the
   stored elements as the first call left them. *)
C2_AddLinesIdempotent ==
    Returned("add_lines") =>
        LET again == AddLines(Registry, last.lines, last.only_one, last.only_lines)
        IN  /\ again.status = "ok"
            /\ again.reg = Registry

\* add_lines returned after storing a given line and auto-filling another element
C2_Witness ==
    /\ Returned("add_lines")
    /\ last.lines # <<>>
    /\ AutoAdded # {}

(* C3: when add_lines(lines, only_one, only_lines) has returned, the stored
   lines are the lines stored before, the given lines and the lines the
   selector returns with the caller's only_one and only_lines for the registry
   elements that have no line; the stored elements are the elements stored
   before and the elements of the stored lines.  Stated as the claim has it;
   the self-call of add_lines breaks it. *)
C3_AddLinesResult ==
    Returned("add_lines") =>
        /\ StoredLines =
               LinesBefore \cup Range(last.lines)
                   \cup Range(LinesOfElements(SortedSymbols(Uncovered),
                                              last.only_one, last.only_lines))
        /\ StoredElements = ElementsBefore \cup {ElementOf(l) : l \in StoredLines}

----------------------------------------------------------------------------
(* Vocabulary of the selector properties *)

Selected(status) == selected.status = status

\* the lines of element e among the lines the selector returned
SelectedOf(e) == {l \in Range(selected.lines) : ElementOf(l) = e}

\* the in-range candidate lines of element e, whatever the order of its table
Candidates(e) ==
    Range(ElementLines(e, line_table[e], selected.only_lines))

\* the overvoltage rule: the line energy is below beam_energy / 2
BelowHalfBeam(l) == 2 * EnergyOfLine(l) < beam_energy

\* min(energy-axis high value, beam energy)
UpperBound == IF beam_energy < high_value THEN beam_energy ELSE high_value

(* C4: with only_one=True, for each requested element with an in-range
   candidate the selector returns exactly one line, and when some candidate is
   below beam_energy / 2 that line is the one of highest energy among the
   candidates below beam_energy / 2, whatever the order of the line table.
   Stated as the claim has it; the scan in table order breaks it. *)
C4_HighestBelowHalfBeam ==
    (Selected("ok") /\ selected.only_one) =>
        \A e \in Range(selected.elements) :
            Candidates(e) # {} =>
                /\ Cardinality(SelectedOf(e)) = 1
                /\ \A l \in SelectedOf(e), m \in Candidates(e) :
                       BelowHalfBeam(m) =>
                           BelowHalfBeam(l) /\ EnergyOfLine(m) <= EnergyOfLine(l)

(* C5, as amended: with a beam energy defined every returned line has its
   energy strictly below min(high value, beam energy); with no beam energy
   defined the call raises AttributeError and returns nothing. *)
C5_BelowUpperBound ==
    /\ Selected("ok") =>
           /\ has_beam
           /\ \A l \in Range(selected.lines) : EnergyOfLine(l) < UpperBound
    /\ (~Selected("none") /\ ~has_beam) => Selected("AttributeError")

\* a call that returned lines on a spectrum whose beam energy is the bound
C5_Witness ==
    /\ Selected("ok")
    /\ beam_energy < high_value
    /\ selected.lines # <<>>
    /\ \E e \in Range(selected.elements) : \E sub \in DOMAIN elements_db[e] :
           Energy(e, sub) >= beam_energy /\ Energy(e, sub) < high_value

(* C5 as the claim has it: with no beam energy defined the call still
   succeeds, bounded by the high value alone. *)
C5_SucceedsWithoutBeam ==
    ~Selected("none") =>
        /\ Selected("ok")
        /\ \A l \in Range(selected.lines) :
               EnergyOfLine(l) < (IF has_beam THEN UpperBound ELSE high_value)

(* C6: with only_one=False the selector returns exactly the lines El_Sub with
   El requested, Sub a line of El passing the filter (None: every subshell;
   any collection, the empty one included: its members only) and the energy
   below the effective upper bound.  Stated as the claim has it; the empty
   collection breaks it. *)
C6_ExactlyTheFilteredLines ==
    (Selected("ok") /\ ~selected.only_one) =>
        Range(selected.lines) =
            {l \in UNION {{LineName(e, sub) : sub \in DOMAIN elements_db[e]} :
                              e \in Range(selected.elements)} :
                 /\ selected.only_lines.none
                        \/ SubshellOf(l) \in selected.only_lines.subs
                 /\ EnergyOfLine(l) < UpperBound}

----------------------------------------------------------------------------
(* Properties of set_lines and of the arguments' validation *)

\* the registry before the call with its stored line list removed
BeforeWithoutLines == [last.before EXCEPT !.has_lines = FALSE, !.xray_lines = <<>>]

\* the lines the selector returns for the element of line l alone
SelectorGives(l, only_one, only_lines) ==
    l \in Range(LinesOfElements(<<ElementOf(l)>>, only_one, only_lines))

(* C7: set_lines(lines, only_one, only_lines) ends as add_lines(lines,
   only_one, only_lines) does when run on the registry with the stored line
   list removed, and a line stored before the call is stored after it only if
   it is in `lines` or the selector returns it again. *)
C7_SetLinesIsAddLinesOnCleared ==
    last.op = "set_lines" =>
        LET r == AddLines(BeforeWithoutLines, last.lines, last.only_one,
                          last.only_lines)
        IN  /\ r.status = last.status
            /\ r.reg = Registry
            /\ last.status = "ok" =>
                   \A l \in StoredLines \cap LinesBefore :
                       \/ l \in Range(last.lines)
                       \/ SelectorGives(l, last.only_one, last.only_lines)
                       \/ SelectorGives(l, TRUE, DefaultOnlyLines)

\* set_lines returned and dropped a line that was stored before it
C7_Witness ==
    /\ Returned("set_lines")
    /\ LinesBefore \ StoredLines # {}
    /\ AutoAdded # {}

(* C8, as amended: when set_lines(lines, only_one, only_lines) has returned on
   a spectrum with elements registered, a following add_lines([], only_one,
   only_lines) with the same only_one and only_lines returns and leaves the
   stored lines and the stored elements unchanged. *)
C8_AddNothingAfterSetLines ==
    (Returned("set_lines") /\ ElementsBefore # {}) =>
        LET r == AddLines(Registry, <<>>, last.only_one, last.only_lines)
        IN  r.status = "ok" /\ r.reg = Registry

\* set_lines returned on a spectrum with a registered element that it
\* auto-filled and another that it left without a line
C8_Witness ==
    /\ Returned("set_lines")
    /\ \E e \in ElementsBefore : \E l \in AutoAdded : ElementOf(l) = e
    /\ \E e \in ElementsBefore : \A l \in StoredLines : ElementOf(l) # e

(* C8 as the claim has it: whatever the arguments of set_lines, a following
   add_lines([]) (only_one=True, only_lines=("Ka", "La", "Ma")) leaves the
   stored lines and the stored elements unchanged. *)
C8_DefaultAddAfterSetLines ==
    (Returned("set_lines") /\ ElementsBefore # {}) =>
        LET r == AddLines(Registry, <<>>, TRUE, DefaultOnlyLines)
        IN  r.status = "ok" /\ r.reg = Registry

(* C9: when only_lines is not None, every line add_lines or set_lines adds on
   its own (stored after the call, not stored before it, not in `lines`) has
   its subshell in the caller's only_lines.  Stated as the claim has it; the
   empty collection and the self-call of add_lines break it. *)
C9_AutoAddedPassTheFilter ==
    ((Returned("add_lines") \/ Returned("set_lines")) /\ ~last.only_lines.none) =>
        \A l \in AutoAdded : SubshellOf(l) \in last.only_lines.subs

\* the text before the first separator and the text after it
BeforeSep(id) == SubSeq(id, 1, (CHOOSE k \in DOMAIN id :
                                    id[k] = Sep /\ \A j \in 1..(k - 1) : id[j] # Sep) - 1)
AfterSep(id) == SubSeq(id, (CHOOSE k \in DOMAIN id :
                                id[k] = Sep /\ \A j \in 1..(k - 1) : id[j] # Sep) + 1, Len(id))

\* no separator, or no such element, or no such line of the element
BadIdentifier(id) ==
    \/ Sep \notin Range(id)
    \/ \A e \in DOMAIN elements_db : BeforeSep(id) # <<e>>
    \/ \A sub \in DOMAIN elements_db[BeforeSep(id)[1]] : AfterSep(id) # <<sub>>

(* C10: add_lines and set_lines raise ValueError when an identifier of
   `lines`, at any position, has no separator, names no database element or
   names no line of its element; add_elements and set_elements raise
   ValueError for a symbol that is no database key and for a plain string. *)
C10_BadArgumentsRaise ==
    /\ (last.op \in {"add_lines", "set_lines"}
            /\ \E i \in DOMAIN last.lines : BadIdentifier(last.lines[i]))
           => last.status = "ValueError"
    /\ (last.op \in {"add_elements", "set_elements"}
            /\ (last.arg.is_str
                   \/ \E i \in DOMAIN last.arg.items :
                          last.arg.items[i] \notin DOMAIN elements_db))
           => last.status = "ValueError"

\* add_lines raised on a list whose first identifier is valid and whose second
\* names a line its element does not have
C10_Witness ==
    /\ last.op = "add_lines"
    /\ last.status = "ValueError"
    /\ Len(last.lines) = 2
    /\ ~BadIdentifier(last.lines[1])
    /\ BadIdentifier(last.lines[2])
    /\ Sep \in Range(last.lines[2])
    /\ BeforeSep(last.lines[2]) = <<"O">>

----------------------------------------------------------------------------
(* Invariants of the registry, whatever the calls and their outcomes *)

\* the number of separators in an identifier
Separators(id) == Cardinality({k \in DOMAIN id : id[k] = Sep})

\* list s is in strictly ascending order of its strings
Ascending(s) == \A i, j \in DOMAIN s : i < j => StrLess(s[i], s[j])

(* C11: after any sequence of set_elements, add_elements, set_lines and
   add_lines calls, successful or failing, every stored line identifier has
   exactly one separator, an element that is a database key and a subshell
   that is a line of that element, and every stored element is a database
   key. *)
C11_StoredIdentifiersValid ==
    /\ \A l \in StoredLines :
           /\ Separators(l) = 1
           /\ \E e \in DOMAIN elements_db : \E sub \in DOMAIN elements_db[e] :
                  l = <<e, Sep, sub>>
    /\ \A e \in StoredElements : e \in DOMAIN elements_db

\* a call raised on a registry that holds lines and elements
C11_Witness ==
    /\ last.op \in {"add_lines", "set_lines", "add_elements"}
    /\ last.status = "ValueError"
    /\ StoredLines # {}
    /\ StoredElements # {}

(* C12: after any sequence of set_elements, add_elements, set_lines and
   add_lines calls, the stored element list and the stored line list are each
   in strictly ascending order (sorted, no duplicate), whatever the order and
   the multiplicity of the arguments. *)
C12_StoredListsSorted ==
    /\ Ascending(xray_lines)
    /\ Ascending([i \in DOMAIN elements |-> <<elements[i]>>])

\* a call given a descending list, or the same item twice, returned with two
\* items stored
C12_Witness ==
    /\ last.status = "ok"
    /\ \/ /\ last.op \in {"add_lines", "set_lines"}
          /\ Len(last.lines) = 2
          /\ ~StrLess(last.lines[1], last.lines[2])
          /\ Len(xray_lines) = 2
       \/ /\ last.op \in {"add_elements", "set_elements"}
          /\ Len(last.arg.items) = 2
          /\ ~StrLess(<<last.arg.items[1]>>, <<last.arg.items[2]>>)
          /\ Len(elements) = 2

(* C13: with every symbol a database key, set_elements(E) returns and leaves
   the stored elements equal to the set E, and add_elements(E) returns and
   leaves them equal to the elements stored before and E. *)
C13_SetReplacesAddUnions ==
    (last.op \in {"set_elements", "add_elements"} /\ ~last.arg.is_str
         /\ \A i \in DOMAIN last.arg.items : last.arg.items[i] \in DOMAIN elements_db)
        => /\ last.status = "ok"
           /\ has_elements
           /\ last.op = "set_elements" => StoredElements = Range(last.arg.items)
           /\ last.op = "add_elements" =>
                  StoredElements = ElementsBefore \cup Range(last.arg.items)

\* set_elements returned and dropped an element that was stored before it
C13_Witness ==
    /\ Returned("set_elements")
    /\ last.arg.items # <<>>
    /\ ElementsBefore \ StoredElements # {}

----------------------------------------------------------------------------
(* The result store on its own: a registry some calls have left, a stack split
   into the stored list, then get_result, _set_result and normalize_result *)

Fresh == [has_elements |-> FALSE, elements |-> <<>>, has_lines |-> FALSE,
          xray_lines |-> <<>>]

\* registries the registry calls leave on a spectrum with no beam energy
StoreRegistries ==
    LET both == AddLines(Fresh, <<LineName("Fe", "Ka"), LineName("O", "Ka")>>,
                         TRUE, DefaultOnlyLines).reg
        one == AddLines(Fresh, <<LineName("Fe", "Ka")>>, TRUE, DefaultOnlyLines).reg
    IN  {Fresh,
         SetElements(Fresh, ListArg(<<"Fe", "O">>)).reg,
         AddLines(Fresh, <<>>, TRUE, DefaultOnlyLines).reg,
         both,
         AddElements(one, ListArg(<<"O">>)).reg,
         SetElements(both, [is_str |-> TRUE, items |-> <<"Fe">>]).reg}

\* the data of one entry: one value per pixel
PixelData == {<<Raw(1), Raw(1)>>, <<Raw(0), Raw(2)>>, <<Raw(0), Raw(0)>>}

\* the value _set_result is given
NewData == {<<Raw(2), Raw(1)>>}

ResultKinds == {"Int", "standard_spec"}

\* the keys the callers ask for: "Fe", "O", "Fe_Ka", "O_Ka", "F" and "Xx"
ResultKeys == {Chars(<<"Fe">>), Chars(<<"O">>), Chars(LineName("Fe", "Ka")),
               Chars(LineName("O", "Ka")), <<"F">>, Chars(<<"Xx">>)}

ReturnElements == {[all |-> TRUE, key |-> <<>>], [all |-> FALSE, key |-> Chars(<<"Fe">>)],
                   [all |-> FALSE, key |-> Chars(<<"Xx">>)]}

InitStore ==
    /\ has_beam = FALSE
    /\ beam_energy = 0
    /\ high_value = 100
    /\ line_table = DeclaredTable
    /\ \E reg \in StoreRegistries :
           /\ has_elements = reg.has_elements
           /\ elements = reg.elements
           /\ has_lines = reg.has_lines
           /\ xray_lines = reg.xray_lines
    /\ last = NoCall
    /\ selected = NoSelection
    /\ signal_type = "EDS_SEM"
    /\ parsed = NoParse
    /\ results = NoResults
    /\ answer = NoAnswer
    /\ intensity = NoIntensity
    /\ InitMeasurements

registry == <<has_elements, elements, has_lines, xray_lines, last, selected>>

CallSetResultSignalList ==
    /\ answer.op = "none"
    /\ ~results.has
    /\ \E result \in ResultKinds, parts \in SeqsUpTo(PixelData, MaxParts) :
           LET r == SetResultSignalList(Registry, result, parts)
           IN  /\ results' = IF r.status = "ok"
                             THEN [has |-> TRUE, kind |-> result, entries |-> r.entries]
                             ELSE results
               /\ answer' = [NoAnswer EXCEPT !.op = "_set_result_signal_list",
                                             !.status = r.status, !.before = results]
    /\ UNCHANGED <<measurements, env, registry, parsed, intensity>>

CallGetResult ==
    /\ answer.op = "none"
    /\ \E key \in ResultKeys :
           LET r == GetResult(results, key)
           IN  answer' = [NoAnswer EXCEPT !.op = "get_result", !.key = key,
                                          !.status = r.status, !.index = r.index,
                                          !.before = results]
    /\ UNCHANGED <<measurements, env, registry, parsed, results, intensity>>

CallSetResult ==
    /\ answer.op = "none"
    /\ \E key \in ResultKeys, data \in NewData, store_in_mp \in BOOLEAN :
           LET r == SetResult(Registry, results, key, data, store_in_mp)
           IN  /\ results' = r.stored
               /\ answer' = [NoAnswer EXCEPT !.op = "_set_result", !.key = key,
                                             !.data = data, !.store_in_mp = store_in_mp,
                                             !.status = r.status, !.returned = r.returned,
                                             !.before = results]
    /\ UNCHANGED <<measurements, env, registry, parsed, intensity>>

CallNormalizeResult ==
    /\ answer.op = "none"
    /\ \E return_element \in ReturnElements :
           LET r == NormalizeResult(results, return_element)
           IN  /\ results' = r.stored
               /\ answer' = [NoAnswer EXCEPT !.op = "normalize_result",
                                             !.return_element = return_element,
                                             !.status = r.status, !.returned = r.returned,
                                             !.before = results]
    /\ UNCHANGED <<measurements, env, registry, parsed, intensity>>

\* the call is over; a stack that could not be split is left as it is
ReturnStore ==
    /\ answer.op # "none"
    /\ ~(answer.op = "_set_result_signal_list" /\ answer.status # "ok")
    /\ answer' = NoAnswer
    /\ UNCHANGED <<measurements, env, registry, parsed, results, intensity>>

NextStore ==
    \/ CallSetResultSignalList
    \/ CallGetResult
    \/ CallSetResult
    \/ CallNormalizeResult
    \/ ReturnStore

SpecStore == InitStore /\ [][NextStore]_vars

----------------------------------------------------------------------------
(* The intensity extractor on its own: a registry some calls have left, the
   standards split into Sample.standard_spec or not, one call *)

\* registries the registry calls leave, whatever the beam energy
ExtractorRegistries ==
    {Fresh,
     SetElements(Fresh, ListArg(<<"Fe">>)).reg,
     SetElements(Fresh, ListArg(<<"Fe", "O">>)).reg,
     AddLines(Fresh, <<>>, TRUE, DefaultOnlyLines).reg,
     AddLines(Fresh, <<LineName("Fe", "La"), LineName("Fe", "Ll")>>,
              TRUE, DefaultOnlyLines).reg,
     AddLines(Fresh, <<LineName("Fe", "Ka"), LineName("O", "Ka")>>,
              TRUE, DefaultOnlyLines).reg}

\* the standards: one spectrum of two channels per part of the stack
StandardStacks == SeqsUpTo({<<Raw(1), Raw(2)>>}, MaxParts)

SignalTypes == {"EDS_SEM", "EDS_TEM", "EDS"}

\* Xray_lines=None with any only_one and only_lines, or a list: "Fe_La",
\* "Fe_Ll" and "FeKa" (no separator)
IntensityArgs ==
    {[Xray_lines |-> [none |-> TRUE, lines |-> <<>>], only_one |-> o, only_lines |-> f] :
         o \in BOOLEAN, f \in OnlyLinesArgs}
    \cup {[Xray_lines |-> [none |-> FALSE, lines |-> l], only_one |-> TRUE,
           only_lines |-> DefaultOnlyLines] :
              l \in SeqsUpTo({LineName("Fe", "La"), LineName("Fe", "Ll"),
                              <<"Fe", "Ka">>}, MaxLines)}

Deconvolutions == {"None", "model", "standard"}

Backgrounds == {0, 2}

\* what m.multifit() does: it raises, or leaves the value a + k in the free
\* amplitude of component k of the model
FitOutcomes ==
    {[ok |-> FALSE, A |-> <<>>]}
        \cup {[ok |-> TRUE, A |-> [k \in 1..(3 * (MaxLines + 1)) |-> a + k]] : a \in {0, 1}}

InitExtractor ==
    /\ InitEnv
    /\ line_table = DeclaredTable
    /\ \E reg \in ExtractorRegistries :
           /\ has_elements = reg.has_elements
           /\ elements = reg.elements
           /\ has_lines = reg.has_lines
           /\ xray_lines = reg.xray_lines
           /\ \/ results = NoResults
              \/ \E parts \in StandardStacks :
                     LET r == SetResultSignalList(reg, "standard_spec", parts)
                     IN  /\ r.status = "ok"
                         /\ results = [has |-> TRUE, kind |-> "standard_spec",
                                       entries |-> r.entries]
    /\ last = NoCall
    /\ selected = NoSelection
    /\ signal_type \in SignalTypes
    /\ parsed = NoParse
    /\ answer = NoAnswer
    /\ intensity = NoIntensity
    /\ InitMeasurements

CallGetLinesIntensity ==
    /\ intensity.status = "none"
    /\ \E args \in IntensityArgs, plot_result \in BOOLEAN,
          lines_deconvolution \in Deconvolutions, bck \in Backgrounds,
          fit \in FitOutcomes :
           \E call \in {[NoIntensity EXCEPT
                              !.Xray_lines = args.Xray_lines, !.plot_result = plot_result,
                              !.only_one = args.only_one, !.only_lines = args.only_lines,
                              !.lines_deconvolution = lines_deconvolution, !.bck = bck]} :
               \E r \in {GetLinesIntensity(Registry, results, call, fit)} :
                   /\ results' = r.stored
                   /\ intensity' = [call EXCEPT !.status = r.status, !.lines = r.lines,
                                                !.intensities = r.intensities,
                                                !.fit = r.fit, !.before = results]
    /\ UNCHANGED <<measurements, env, registry, parsed, answer>>

SpecExtractor == InitExtractor /\ [][CallGetLinesIntensity]_vars

----------------------------------------------------------------------------
(* The line parser on its own: every short string, one call *)

\* the characters of the identifiers
Alphabet == {"F", "e", "K", "a", Sep}

Identifiers == SeqsUpTo(Alphabet, MaxIdLen)

InitParse ==
    /\ has_beam = FALSE
    /\ beam_energy = 0
    /\ high_value = 100
    /\ line_table = DeclaredTable
    /\ InitRegistry

CallGetElementAndLine ==
    /\ parsed.status = "none"
    /\ \E id \in Identifiers :
           LET r == GetElementAndLine(id)
           IN  parsed' = [identifier |-> id, status |-> r.status,
                          element |-> r.element, line |-> r.line]
    /\ UNCHANGED <<measurements, env, has_elements, elements, has_lines, xray_lines, last, selected,
                   results, answer, intensity>>

SpecParse == InitParse /\ [][CallGetElementAndLine]_vars

(* C20: _get_element_and_line(identifier) raises for every identifier that has
   no "_"; for an identifier that has one it returns the text before the first
   "_" and the text after it.  Stated as the claim has it; find() returning -1
   breaks it. *)
C20_ParseRaisesWithoutSeparator ==
    parsed.status # "none" =>
        IF Sep \in Range(parsed.identifier)
        THEN /\ parsed.status = "ok"
             /\ parsed.element = BeforeSep(parsed.identifier)
             /\ parsed.line = AfterSep(parsed.identifier)
        ELSE parsed.status # "ok"

----------------------------------------------------------------------------
(* Properties of the result store *)

StoredBefore == answer.before.entries

\* the names an entry is stored under: the line or element of its title, and
\* the element of that line
NamesOf(entry) ==
    {name \in ResultKeys :
         \/ entry.title = TitleOf(answer.before.kind, name)
         \/ entry.title = StandardTitle(name)
         \/ \E sub \in {"Ka", "La", "Ll"} :
                \/ entry.title = TitleOf(answer.before.kind, name \o Chars(<<Sep, sub>>))
                \/ entry.title = StandardTitle(name \o Chars(<<Sep, sub>>))}

(* C17: get_result(key, result) raises whenever no entry of Sample[result] is
   stored under the key, keys that are part of the title of another entry
   included.  Stated as the claim has it; the substring test breaks it. *)
C17_GetResultRaisesForUnstoredKey ==
    (answer.op = "get_result"
         /\ \A i \in DOMAIN StoredBefore : answer.key \notin NamesOf(StoredBefore[i]))
        => answer.status # "ok"

\* the registry lists, as strings of characters
ElementList == [i \in DOMAIN elements |-> Chars(<<elements[i]>>)]
LineList == [i \in DOMAIN xray_lines |-> Chars(xray_lines[i])]

\* the registry lists as long as the stored result list
MatchingLists ==
    {l \in ({ElementList : b \in {has_elements} \ {FALSE}}
                \cup {LineList : b \in {has_lines} \ {FALSE}}) :
         Len(l) = Len(StoredBefore)}

(* C18: _set_result(key, result, data, store_in_mp=True) looks the key up in
   the registry list (elements or X-ray lines) that is as long as the stored
   result list and overwrites exactly the slot at the index where the key is
   found in it: that slot holds the new entry, every other slot is as before,
   and a key that is in no such list overwrites nothing.  Stated as the claim
   has it; the choice of the list by the length of the key and the index left
   by the loop break it. *)
C18_SetResultOverwritesFoundSlot ==
    (answer.op = "_set_result" /\ answer.store_in_mp /\ answer.before.has) =>
        /\ \A l \in MatchingLists : \A j \in DOMAIN l :
               l[j] = answer.key =>
                   /\ answer.status = "ok"
                   /\ results.entries =
                          [StoredBefore EXCEPT
                               ![j] = [title |-> TitleOf(results.kind, answer.key),
                                       data |-> answer.data]]
        /\ (\A l \in MatchingLists : \A j \in DOMAIN l : l[j] # answer.key)
               => results = answer.before

\* two fractions are the same number
SameNumber(a, b) == a[2] # 0 /\ b[2] # 0 /\ a[1] * b[2] = b[1] * a[2]

\* the sum of pixel p over the entries, as the data are before the call
SumBefore(p) == PixelSum(StoredBefore, p)

(* C19, as amended: when normalize_result(result) has returned, the entries
   stored under Sample[result] are as they were before the call, and the
   entries it returned hold the normalized values: each value is the stored
   value divided by the sum of its pixel over all the entries, and the
   returned values of a pixel whose sum is not zero add up to one. *)
C19_NormalizeReturnsACopy ==
    (answer.op = "normalize_result" /\ answer.status = "ok") =>
        /\ results = answer.before
        /\ answer.return_element.all =>
               /\ Len(answer.returned) = Len(StoredBefore)
               /\ \A r \in DOMAIN answer.returned :
                      /\ answer.returned[r].title = StoredBefore[r].title
                      /\ \A p \in DOMAIN answer.returned[r].data :
                             /\ answer.returned[r].data[p]
                                    = Over(StoredBefore[r].data[p], SumBefore(p))
                             /\ SumBefore(p)[1] # 0 =>
                                    SameNumber(PixelSum(answer.returned, p), Raw(1))

\* normalize_result returned every entry of a list of two whose pixels add up
\* to more than one
C19_Witness ==
    /\ answer.op = "normalize_result"
    /\ answer.status = "ok"
    /\ answer.return_element.all
    /\ Len(answer.returned) = 2
    /\ \E p \in 1..2 : SumBefore(p)[1] > 1

(* C19 as the claim has it: when normalize_result(result) has returned, the
   entries stored under Sample[result] hold the normalized values. *)
C19_NormalizedWrittenBack ==
    (answer.op = "normalize_result" /\ answer.status = "ok") =>
        \A r \in DOMAIN results.entries : \A p \in DOMAIN results.entries[r].data :
            SumBefore(p)[1] # 0 =>
                SameNumber(results.entries[r].data[p],
                           Over(StoredBefore[r].data[p], SumBefore(p)))

----------------------------------------------------------------------------
(* Properties of the intensity extractor *)

Extracted(status) == intensity.status = status

(* C14: get_lines_intensity raises whenever the list of lines it works on is
   empty (an empty list given as Xray_lines, an empty stored Sample.Xray_lines,
   or stored elements for which the selector returns no line), in every mode
   and for either plot_result; it never returns an empty list.  Stated as the
   claim has it; the loops over an empty list break it. *)
C14_EmptyLineListRaises ==
    (~Extracted("none") /\ intensity.lines = <<>>) => ~Extracted("ok")

(* C15, as amended: in the deconvolution modes the model is built on the raw
   input when lines_deconvolution is 'standard' and on the input minus bck
   when it is 'model'. *)
C15_BackgroundRemovedForModel ==
    intensity.fit.runs = 1 =>
        /\ intensity.lines_deconvolution = "standard" =>
               ~intensity.fit.signal.subtracted
        /\ intensity.lines_deconvolution = "model" =>
               /\ intensity.fit.signal.subtracted
               /\ intensity.fit.signal.bck = intensity.bck

\* a 'model' call with a background returned the intensities of its lines
C15_Witness ==
    /\ Extracted("ok")
    /\ intensity.lines_deconvolution = "model"
    /\ intensity.bck # 0
    /\ intensity.intensities # <<>>

(* C15 as the claim has it: the model is fitted to the input minus bck when
   lines_deconvolution is 'standard' and to the raw input when it is
   'model'. *)
C15_BackgroundRemovedForStandard ==
    intensity.fit.runs = 1 =>
        /\ intensity.lines_deconvolution = "standard" =>
               /\ intensity.fit.signal.subtracted
               /\ intensity.fit.signal.bck = intensity.bck
        /\ intensity.lines_deconvolution = "model" =>
               ~intensity.fit.signal.subtracted

(* C16: in 'model' deconvolution, when the joint fit has run, every component
   of a secondary line is tied to the component of a line of the same element
   and shell, and its amplitude is its own line's relative factor times the
   amplitude of that component, however many lines and secondary components
   there are.  Stated as the claim has it; the twin functions all reading the
   one variable ratio_line break it. *)
C16_SecondaryAmplitudeIsOwnFactor ==
    (intensity.lines_deconvolution = "model" /\ intensity.fit.amplitudes # <<>>) =>
        \A k \in DOMAIN intensity.fit.m :
            LET fp == intensity.fit.m[k]
            IN  fp.twin # 0 =>
                    /\ intensity.fit.m[fp.twin].twin = 0
                    /\ intensity.fit.m[fp.twin].element = fp.element
                    /\ Spelling(intensity.fit.m[fp.twin].subshell)[1]
                           = Spelling(fp.subshell)[1]
                    /\ SameNumber(intensity.fit.amplitudes[k],
                                  Over(Plus(Raw(0),
                                            <<line_factor[fp.element][fp.subshell]
                                                  * intensity.fit.amplitudes[fp.twin][1],
                                              intensity.fit.amplitudes[fp.twin][2]>>),
                                       Raw(100)))

----------------------------------------------------------------------------
(* The resolution model on its own: every width, energy and reference line,
   one call *)

\* largest reference width, in eV
MaxWidth == 12

\* the reference widths
Resolutions == 0..MaxWidth

\* the energies of the peaks, in 0.1 keV
PeakEnergies == {0, 5, 6, 7, 64, 100}

\* the reference lines: lines of the database, a line of an unknown element
\* and a string with no separator
ReferenceArgs == {LineName("Fe", "Ka"), LineName("Fe", "La"), LineName("O", "Ka"),
                  LineName("Xx", "Ka"), <<"Fe", "Ka">>}

InitWidth == InitParse

CallFWHM ==
    /\ width.status = "none"
    /\ \E FWHM_ref \in Resolutions, E \in PeakEnergies, line_ref \in ReferenceArgs :
           \E r \in {FWHM(FWHM_ref, E, Chars(line_ref))} :
               width' = [status |-> r.status, FWHM_ref |-> FWHM_ref, E |-> E,
                         line_ref |-> line_ref, returned |-> r.returned]
    /\ UNCHANGED <<env, registry, rest_of_state, acquisition, summed>>

SpecWidth == InitWidth /\ [][CallFWHM]_vars

\* the call was made at the energy of its reference line
AtReferenceEnergy ==
    /\ width.status # "none"
    /\ width.line_ref \in {LineName(e, sub) : e \in DOMAIN elements_db,
                                              sub \in {"Ka", "La", "Ll"}}
    /\ SubshellOf(width.line_ref) \in DOMAIN elements_db[ElementOf(width.line_ref)]
    /\ width.E = EnergyOfLine(width.line_ref)

\* the returned width is the number x >= 0
ReturnedWidth(x) == SameNumber(width.returned.squared, <<x[1] * x[1], x[2] * x[2]>>)

(* C21, as amended: FWHM(FWHM_ref, E, line_ref) called with E the energy of
   the reference line returns, for every FWHM_ref >= 0, the width FWHM_ref
   converted from eV to keV, that is FWHM_ref / 1000. *)
C21_ReferenceWidthInKeV ==
    AtReferenceEnergy =>
        /\ width.status = "ok"
        /\ ReturnedWidth(<<width.FWHM_ref, 1000>>)

\* a call at the reference energy with a width that the conversion changes
C21_Witness ==
    /\ AtReferenceEnergy
    /\ width.FWHM_ref > 1
    /\ width.status = "ok"

(* C21 as the claim has it: FWHM called with E the energy of the reference
   line returns FWHM_ref itself, the same number in the same unit. *)
C21_ReferenceWidthUnchanged ==
    AtReferenceEnergy =>
        /\ width.status = "ok"
        /\ ReturnedWidth(Raw(width.FWHM_ref))

----------------------------------------------------------------------------
(* Properties of the registry calls: termination and frame *)

(* C22: add_lines, and set_lines through it, comes to an end whatever the
   registry and the valid identifiers given: the nesting of its calls of
   itself never reaches the depth at which the interpreter gives up.  Stated
   as the claim has it; an element covered only by a given line that is not
   stored yet and another element that needs its lines filled in break it. *)
C22_AddLinesTerminates ==
    last.op \in {"add_lines", "set_lines"} => last.status # "RuntimeError"

----------------------------------------------------------------------------
(* The scan of the selector *)

\* where the line table of its element lists the subshell of line l
TablePosition(l) ==
    CHOOSE i \in DOMAIN line_table[ElementOf(l)] :
        line_table[ElementOf(l)][i] = SubshellOf(l)

\* line l comes no later than line m in the line table
NoLater(l, m) == TablePosition(l) <= TablePosition(m)

(* C23: with only_one=True, for each requested element with an in-range
   candidate the selector returns one line: the first candidate, in the order
   of the line table, whose energy is below beam_energy / 2, and the last
   candidate in that order when none is below beam_energy / 2. *)
C23_FirstBelowHalfBeamElseLast ==
    (Selected("ok") /\ selected.only_one) =>
        \A e \in Range(selected.elements) :
            Candidates(e) # {} =>
                LET below == {l \in Candidates(e) : BelowHalfBeam(l)}
                IN  \E l \in Candidates(e) :
                        /\ SelectedOf(e) = {l}
                        /\ below # {} => l \in below /\ \A m \in below : NoLater(l, m)
                        /\ below = {} => \A m \in Candidates(e) : NoLater(m, l)

\* a scan that passes over a candidate above beam_energy / 2 and takes a later
\* one, which is not the one of highest energy below beam_energy / 2
C23_Witness ==
    /\ Selected("ok")
    /\ selected.only_one
    /\ \E e \in Range(selected.elements) :
           \E l, m, h \in Candidates(e) :
               /\ SelectedOf(e) = {l}
               /\ BelowHalfBeam(l) /\ BelowHalfBeam(h) /\ ~BelowHalfBeam(m)
               /\ TablePosition(m) < TablePosition(l)
               /\ EnergyOfLine(l) < EnergyOfLine(h)

----------------------------------------------------------------------------
(* add_lines filling in the lines of the elements left without one: a registry
   that set_elements has left, with an element that has a line outside the
   default only_lines, then add_lines calls *)

\* the elements set_elements is given
FillElements == SeqsUpTo({"Fe", "O", "Ti"}, MaxElems)

\* the lines add_lines is given
FillLines == SeqsUpTo({LineName("Ti", "Ka"), LineName("Ti", "La"), LineName("Fe", "Ka")},
                      MaxLines)

InitFill ==
    /\ InitEnv
    /\ line_table = DeclaredTable
    /\ \E items \in FillElements :
           \E r \in {SetElements(Fresh, ListArg(items))} :
               /\ r.status = "ok"
               /\ has_elements = r.reg.has_elements
               /\ elements = r.reg.elements
               /\ has_lines = r.reg.has_lines
               /\ xray_lines = r.reg.xray_lines
    /\ last = NoCall
    /\ selected = NoSelection
    /\ signal_type = "EDS_SEM"
    /\ parsed = NoParse
    /\ results = NoResults
    /\ answer = NoAnswer
    /\ intensity = NoIntensity
    /\ InitMeasurements

CallAddLinesFill ==
    /\ last.op = "none"
    /\ \E lines \in FillLines, only_one \in BOOLEAN, only_lines \in OnlyLinesArgs :
           Store(AddLines(Registry, lines, only_one, only_lines),
                 [NoCall EXCEPT !.op = "add_lines", !.lines = lines,
                                !.only_one = only_one, !.only_lines = only_lines])

NextFill ==
    \/ CallAddLinesFill
    \/ Return

SpecFill == InitFill /\ [][NextFill]_vars

\* the elements whose lines were customized when the call was made: those of
\* the lines stored before it and those of the lines given to it
CustomizedAtCall ==
    {ElementOf(l) : l \in LinesBefore} \cup {ElementOf(l) : l \in Range(last.lines)}

(* C24: add_lines adds no line on its own for an element whose lines have been
   customized: when the call has returned, every line that was neither stored
   before the call nor given in `lines` is a line of an element that had no
   stored line before the call and no line in `lines`.  Stated as the claim
   has it; the nested call, which does not see the lines given to the outer
   one, breaks it. *)
C24_NoAutoAddForCustomized ==
    Returned("add_lines") =>
        \A l \in AutoAdded : ElementOf(l) \notin CustomizedAtCall

----------------------------------------------------------------------------
(* The joint fit of the intensity extractor *)

\* component k is the i-th component of the fitted model that is tied to none
IsNthPrimary(k, i) ==
    /\ intensity.fit.m[k].twin = 0
    /\ Cardinality({j \in 1..k : intensity.fit.m[j].twin = 0}) = i

\* the subshells of the same element and shell as component k, itself excluded
SameShell(k) ==
    {sub \in DOMAIN elements_db[intensity.fit.m[k].element] :
         /\ sub # intensity.fit.m[k].subshell
         /\ Spelling(sub)[1] = Spelling(intensity.fit.m[k].subshell)[1]}

(* C25: when get_lines_intensity has returned in a deconvolution mode, the fit
   has run exactly once, on a model that holds a component for every
   requested line and, in 'model' mode, a tied component for every secondary
   line of each; the i-th returned intensity carries the name of the i-th
   requested line and the amplitude the fit left in that line's component. *)
C25_OneFitOfTheWholeModel ==
    (Extracted("ok") /\ intensity.lines_deconvolution # "None") =>
        /\ intensity.fit.runs = 1
        /\ Len(intensity.intensities) = Len(intensity.lines)
        /\ \A i \in DOMAIN intensity.lines :
               \E k \in DOMAIN intensity.fit.m :
                   /\ IsNthPrimary(k, i)
                   /\ intensity.fit.m[k].name = Chars(intensity.lines[i])
                   /\ intensity.intensities[i].line = Chars(intensity.lines[i])
                   /\ intensity.intensities[i].amplitude = intensity.fit.amplitudes[k]
                   /\ intensity.lines_deconvolution = "model" =>
                          \A sub \in SameShell(k) :
                              \E t \in DOMAIN intensity.fit.m :
                                  /\ t > k
                                  /\ intensity.fit.m[t].twin = k
                                  /\ intensity.fit.m[t].subshell = sub

\* a 'model' call for two lines that have secondary lines
C25_Witness ==
    /\ Extracted("ok")
    /\ intensity.lines_deconvolution = "model"
    /\ Len(intensity.lines) = 2
    /\ intensity.lines[1] # intensity.lines[2]
    /\ \A k \in DOMAIN intensity.fit.m :
           intensity.fit.m[k].twin = 0 => SameShell(k) # {}

----------------------------------------------------------------------------
(* What the registry calls leave behind *)

\* the call raised on its input: a bad symbol or identifier, or no beam energy
RaisedOnInput == last.status \in {"ValueError", "AttributeError"}

(* C26: whenever set_elements, add_elements, set_lines or add_lines raises on
   invalid input, the stored element list and the stored X-ray line list are
   as they were before the call.  Stated as the claim has it; set_elements
   and set_lines, which delete the stored list before they validate, break
   it. *)
C26_FailedCallChangesNothing ==
    (last.op \in {"set_elements", "add_elements", "set_lines", "add_lines"}
        /\ RaisedOnInput) =>
        Registry = last.before

(* C27: add_elements and add_lines remove nothing: when such a call has
   returned, every element and every X-ray line stored before it is still
   stored. *)
C27_AddsNeverRemove ==
    (Returned("add_elements") \/ Returned("add_lines")) =>
        /\ ElementsBefore \subseteq StoredElements
        /\ LinesBefore \subseteq StoredLines

\* an add_lines call that found elements and lines stored and added to both
C27_Witness ==
    /\ Returned("add_lines")
    /\ ElementsBefore # {} /\ StoredElements # ElementsBefore
    /\ LinesBefore # {} /\ StoredLines # LinesBefore

----------------------------------------------------------------------------
(* What the intensity extractor leaves behind *)

(* C28: get_lines_intensity changes no stored result, the standard spectra of
   Sample.standard_spec included, in any mode and whatever its outcome: each
   template of 'standard' mode is cut from the full stored standard.  (The
   call has no assignment to the registry.)  Stated as the claim has it; the
   cut made in place in the spectrum get_result hands out breaks it. *)
C28_ExtractionChangesNoResult ==
    intensity.status # "none" => results = intensity.before

----------------------------------------------------------------------------
(* What _set_result leaves behind *)

\* the registry list _set_result searches for the key: the elements for a key
\* shorter than three characters, the X-ray lines otherwise
SearchedList == IF Len(answer.key) < 3 THEN ElementList ELSE LineList

(* C29: _set_result with store_in_mp=True changes at most one slot of the
   stored list, the one at the position where the registry list it searches
   holds the key; a key that list does not hold changes no slot.  Stated as
   the claim has it; the index the loop is left with when it finds nothing
   breaks it. *)
C29_SetResultChangesOnlyTheNamedSlot ==
    (answer.op = "_set_result" /\ answer.store_in_mp) =>
        /\ results.has = answer.before.has
        /\ DOMAIN results.entries = DOMAIN StoredBefore
        /\ \A i \in DOMAIN results.entries :
               results.entries[i] # StoredBefore[i] =>
                   /\ i \in DOMAIN SearchedList
                   /\ SearchedList[i] = answer.key

----------------------------------------------------------------------------
(* EDSSpectrum.sum on its own: every spectrum, then sum calls *)

\* most axes of a spectrum
MaxAxes == 2
\* longest axis
MaxAxisLen == 3
\* the live_time beyond which no further sum is followed
MaxLiveTime == 8

\* the microscope nodes: none, one without EDS, one whose EDS has no
\* live_time, one with a live_time
Nodes == {Absent,
          [Absent EXCEPT !.present = TRUE],
          [Absent EXCEPT !.present = TRUE, !.has_EDS = TRUE],
          Timed(1), Timed(2)}

Shapes == UNION {[1..n -> 1..MaxAxisLen] : n \in 1..MaxAxes}

\* the axes the callers name: by index from either end, or out of range
Axes == (-MaxAxes - 1)..MaxAxes

InitSum ==
    /\ has_beam = FALSE
    /\ beam_energy = 0
    /\ high_value = 100
    /\ line_table = DeclaredTable
    /\ has_elements = FALSE
    /\ elements = <<>>
    /\ has_lines = FALSE
    /\ xray_lines = <<>>
    /\ last = NoCall
    /\ selected = NoSelection
    /\ signal_type = "EDS_SEM"
    /\ parsed = NoParse
    /\ results = NoResults
    /\ answer = NoAnswer
    /\ intensity = NoIntensity
    /\ width = NoWidth
    /\ acquisition \in [SEM : Nodes, TEM : Nodes, shape : Shapes]
    /\ summed = NoSum

CallSum ==
    /\ summed.status = "none"
    /\ \E axis \in Axes :
           \E r \in {Sum(acquisition, axis)} :
               /\ r.acquisition.SEM.live_time <= MaxLiveTime
               /\ r.acquisition.TEM.live_time <= MaxLiveTime
               /\ acquisition' = r.acquisition
               /\ summed' = [status |-> r.status, axis |-> axis, before |-> acquisition,
                             returned |-> r.returned]
    /\ UNCHANGED <<env, registry, rest_of_state, width>>

\* the call is over: the caller goes on to its next sum
ReturnSum ==
    /\ summed.status # "none"
    /\ summed' = NoSum
    /\ UNCHANGED <<env, registry, rest_of_state, width, acquisition>>

NextSum ==
    \/ CallSum
    \/ ReturnSum

SpecSum == InitSum /\ [][NextSum]_vars

(* C30: sum(axis) leaves the live_time in the metadata of the spectrum it is
   called on as it was; only the signal it returns carries the live_time
   multiplied by the length of the summed axis, so that a second sum of the
   same spectrum over the same axis would return the same live_time.  Stated
   as the claim has it; the assignment to the spectrum's own metadata breaks
   it. *)
C30_SumLeavesLiveTime ==
    summed.status = "ok" =>
        /\ acquisition.SEM.live_time = summed.before.SEM.live_time
        /\ acquisition.TEM.live_time = summed.before.TEM.live_time
        /\ \A r \in {Sum(acquisition, summed.axis)} :
               /\ r.returned.SEM.live_time = summed.returned.SEM.live_time
               /\ r.returned.TEM.live_time = summed.returned.TEM.live_time
====
